---- MODULE Spec2Model ----
(***************************************************************************)
(* ContractIQ: the clause segmenter split_into_clauses and the extractor   *)
(* extract_clauses_from_file of document.py.                               *)
(*                                                                         *)
(* A Python str is a sequence of one-character strings.  A value that may  *)
(* be None (the argument, a fragment of re.split, a page's text) is a      *)
(* record [none, str].                                                     *)
(***************************************************************************)
EXTENDS Integers, Sequences, FiniteSets, TLC

(***************************************************************************)
(* Characters and their classes (\s, \d, [A-Z], [a-z], str.strip).         *)
(***************************************************************************)
Whitespace == {" ", "\n", "\t"}

Digits == {"0", "1", "2", "3", "4", "5", "6", "7", "8", "9"}

Upper ==
  {"A", "B", "C", "D", "E", "F", "G", "H", "I", "J", "K", "L", "M",
   "N", "O", "P", "Q", "R", "S", "T", "U", "V", "W", "X", "Y", "Z"}

Lower ==
  {"a", "b", "c", "d", "e", "f", "g", "h", "i", "j", "k", "l", "m",
   "n", "o", "p", "q", "r", "s", "t", "u", "v", "w", "x", "y", "z"}

SentenceEnd == {".", "!", "?"}

NoneVal == [none |-> TRUE, str |-> <<>>]

Str(s) == [none |-> FALSE, str |-> s]

(***************************************************************************)
(* Program constants.                                                      *)
(***************************************************************************)
MinClauseLen == 50

chunk_size == 100

SentinelNoText ==
  <<"N","o"," ","r","e","a","d","a","b","l","e"," ","t","e","x","t"," ",
    "f","o","u","n","d"," ","i","n"," ","t","h","e"," ",
    "d","o","c","u","m","e","n","t",".">>

SentinelNoContent ==
  <<"N","o"," ","r","e","a","d","a","b","l","e"," ","c","o","n","t","e","n","t"," ",
    "f","o","u","n","d"," ","i","n"," ","t","h","e"," ",
    "d","o","c","u","m","e","n","t",".">>

WHEREAS == <<"W","H","E","R","E","A","S">>

THEREFORE == <<"T","H","E","R","E","F","O","R","E">>

IN_WITNESS_WHEREOF ==
  <<"I","N"," ","W","I","T","N","E","S","S"," ","W","H","E","R","E","O","F">>

IN_CONSIDERATION_OF ==
  <<"I","N"," ","C","O","N","S","I","D","E","R","A","T","I","O","N"," ","O","F">>

(***************************************************************************)
(* Helpers on sequences.                                                   *)
(***************************************************************************)
Min(S) == CHOOSE x \in S : \A y \in S : x <= y

\* F(lo) \o F(lo + 1) \o ... \o F(hi), by halves: the order is that of the
\* loop  for i in range(lo, hi + 1)  appending F(i)
RECURSIVE FlatMap(_, _, _)
FlatMap(F(_), lo, hi) ==
  IF lo > hi THEN <<>>
  ELSE IF lo = hi THEN F(lo)
  ELSE LET mid == (lo + hi) \div 2
       IN  FlatMap(F, lo, mid) \o FlatMap(F, mid + 1, hi)

Concat(ss) == FlatMap(LAMBDA i : ss[i], 1, Len(ss))

\* The first index j >= i of s whose character is outside Class, or Len(s) + 1:
\* where a greedy run  Class*  starting at i ends.
RECURSIVE RunEnd(_, _, _)
RunEnd(s, i, Class) ==
  IF i > Len(s) \/ s[i] \notin Class THEN i ELSE RunEnd(s, i + 1, Class)

\* The last index j <= i of s whose character is not whitespace, or 0.
RECURSIVE LastNonSpace(_, _)
LastNonSpace(s, i) ==
  IF i = 0 \/ s[i] \notin Whitespace THEN i ELSE LastNonSpace(s, i - 1)

\* str.strip()
Strip(s) == SubSeq(s, RunEnd(s, 1, Whitespace), LastNonSpace(s, Len(s)))

(***************************************************************************)
(* The combined marker pattern: six alternatives, each a capturing group.  *)
(* A match at i is given by the index after its last character; 0 is no    *)
(* match.  The greedy runs never need backtracking: the character that     *)
(* must follow a run is not of the run's class.                            *)
(***************************************************************************)
\* \d+\.\s+
MatchNumeric(s, i) ==
  LET d == RunEnd(s, i, Digits)
  IN  IF d > i /\ d <= Len(s) /\ s[d] = "."
      THEN LET w == RunEnd(s, d + 1, Whitespace)
           IN  IF w > d + 1 THEN w ELSE 0
      ELSE 0

\* [A-Z][a-z]+\.\s+
MatchCapWord(s, i) ==
  IF i <= Len(s) /\ s[i] \in Upper
  THEN LET l == RunEnd(s, i + 1, Lower)
       IN  IF l > i + 1 /\ l <= Len(s) /\ s[l] = "."
           THEN LET w == RunEnd(s, l + 1, Whitespace)
                IN  IF w > l + 1 THEN w ELSE 0
           ELSE 0
  ELSE 0

\* a literal keyword
MatchLiteral(s, i, lit) ==
  IF i + Len(lit) - 1 <= Len(s) /\ SubSeq(s, i, i + Len(lit) - 1) = lit
  THEN i + Len(lit)
  ELSE 0

\* a slip: the four legal keywords left out of clause_markers
MarkerEndNoKeywords(s, i, g) ==
  CASE g = 1 -> MatchNumeric(s, i)
    [] g = 2 -> MatchCapWord(s, i)
    [] OTHER -> 0

\* clause_markers, in the order of the alternation
MarkerEnd(s, i, g) ==
  CASE g = 1 -> MatchNumeric(s, i)
    [] g = 2 -> MatchCapWord(s, i)
    [] g = 3 -> MatchLiteral(s, i, WHEREAS)
    [] g = 4 -> MatchLiteral(s, i, THEREFORE)
    [] g = 5 -> MatchLiteral(s, i, IN_WITNESS_WHEREOF)
    [] g = 6 -> MatchLiteral(s, i, IN_CONSIDERATION_OF)

NumMarkers == 6

\* The match of the combined pattern at i: the first alternative that matches
\* there (group 0: none does).
MatchAt(s, i) ==
  LET gs == {g \in 1..NumMarkers : MarkerEnd(s, i, g) > 0}
  IN  IF gs = {} THEN [group |-> 0, end |-> 0]
      ELSE [group |-> Min(gs), end |-> MarkerEnd(s, i, Min(gs))]

\* The positions of s at which the combined pattern matches.
MatchStarts(s) == {i \in 1..Len(s) : MatchAt(s, i).group > 0}

\* What one match contributes to re.split's list: one entry per capturing
\* group, the matched text for the group that matched and None for the others.
Groups(s, i, m) ==
  [g \in 1..NumMarkers |->
     IF g = m.group THEN Str(SubSeq(s, i, m.end - 1)) ELSE NoneVal]

\* a slip: the text is cut after each marker, which stays at the end of the
\* text before it
RECURSIVE SplitFromAfterMarker(_, _, _)
SplitFromAfterMarker(s, p, starts) ==
  LET nxt == {i \in starts : i >= p}
  IN  IF nxt = {} THEN << Str(SubSeq(s, p, Len(s))) >>
      ELSE LET i == Min(nxt)
               m == MatchAt(s, i)
           IN  << Str(SubSeq(s, p, m.end - 1)) >>
                 \o SplitFromAfterMarker(s, m.end, starts)

\* re.split(pattern, text) from position p on: the matches are taken left to
\* right without overlap; the text before each match, then its groups.
RECURSIVE SplitFrom(_, _, _)
SplitFrom(s, p, starts) ==
  LET nxt == {i \in starts : i >= p}
  IN  IF nxt = {} THEN << Str(SubSeq(s, p, Len(s))) >>
      ELSE LET i == Min(nxt)
               m == MatchAt(s, i)
           IN  << Str(SubSeq(s, p, i - 1)) >> \o Groups(s, i, m)
                 \o SplitFrom(s, m.end, starts)

\* [.!?]\s+
MatchSentenceEnd(s, i) ==
  IF i <= Len(s) /\ s[i] \in SentenceEnd
  THEN LET w == RunEnd(s, i + 1, Whitespace)
       IN  IF w > i + 1 THEN w ELSE 0
  ELSE 0

\* The matches of [.!?]\s+ in s, in order.  No two overlap: after its first
\* character a match holds whitespace only, where no match starts.
SentenceEnds(s) ==
  FlatMap(LAMBDA i : IF MatchSentenceEnd(s, i) > 0 THEN <<i>> ELSE <<>>, 1, Len(s))

\* re.split(r'[.!?]\s+', text): the text before each match, and the rest
ReSplitSentences(s) ==
  LET ends == SentenceEnds(s)
      n == Len(ends)
  IN  [k \in 1..(n + 1) |->
         SubSeq(s, IF k = 1 THEN 1 ELSE MatchSentenceEnd(s, ends[k - 1]),
                   IF k = n + 1 THEN Len(s) ELSE ends[k] - 1)]

\* a slip: the text is split at the sentence ends, not at the markers
ReSplitMarkersAtSentenceEnds(s) ==
  LET ss == ReSplitSentences(s)
  IN  [k \in 1..Len(ss) |-> Str(ss[k])]

\* re.split(pattern, text)
ReSplitMarkers(s) == SplitFrom(s, 1, MatchStarts(s))

(***************************************************************************)
(* The loops of split_into_clauses.                                        *)
(***************************************************************************)
\* a slip: len(clause) >= 50
IsSubstantialAtLeast(c) == Len(c) >= MinClauseLen

\* len(clause) > 50
IsSubstantial(c) == Len(c) > MinClauseLen

\* for clause in clauses: skip None, strip, keep the substantial ones
\* a slip: the clause is appended as it is, not stripped
CleanClausesNoStrip(cs) ==
  FlatMap(LAMBDA k : IF ~cs[k].none /\ IsSubstantial(Strip(cs[k].str))
                     THEN << cs[k].str >> ELSE <<>>,
          1, Len(cs))

CleanClauses(cs) ==
  FlatMap(LAMBDA k : IF ~cs[k].none /\ IsSubstantial(Strip(cs[k].str))
                     THEN << Strip(cs[k].str) >> ELSE <<>>,
          1, Len(cs))

\* for sentence in sentences: keep the stripped sentence if it is substantial
\* a slip: the sentence is appended as it is, not stripped
CleanSentencesNoStrip(ss) ==
  FlatMap(LAMBDA k : IF ss[k] # <<>> /\ Strip(ss[k]) # <<>>
                          /\ IsSubstantial(Strip(ss[k]))
                     THEN << ss[k] >> ELSE <<>>,
          1, Len(ss))

CleanSentences(ss) ==
  FlatMap(LAMBDA k : IF ss[k] # <<>> /\ Strip(ss[k]) # <<>>
                          /\ IsSubstantial(Strip(ss[k]))
                     THEN << Strip(ss[k]) >> ELSE <<>>,
          1, Len(ss))

RECURSIVE WordEnd(_, _)
WordEnd(s, i) ==
  IF i > Len(s) \/ s[i] \in Whitespace THEN i ELSE WordEnd(s, i + 1)

\* text.split(): the maximal runs of non-whitespace characters, in order
SplitWords(s) ==
  FlatMap(LAMBDA i : IF s[i] \notin Whitespace /\ (i = 1 \/ s[i - 1] \in Whitespace)
                     THEN << SubSeq(s, i, WordEnd(s, i) - 1) >> ELSE <<>>,
          1, Len(s))

\* a slip: ''.join(ws)
JoinNoSpace(ws) == FlatMap(LAMBDA k : ws[k], 1, Len(ws))

\* ' '.join(ws)
Join(ws) ==
  FlatMap(LAMBDA k : IF k = 1 THEN ws[k] ELSE <<" ">> \o ws[k], 1, Len(ws))

\* a slip: words[i:i + chunk_size + 1], each chunk taking the next one's first word
SliceOneMore(words, i) ==
  SubSeq(words, i + 1,
         IF i + chunk_size + 1 < Len(words) THEN i + chunk_size + 1 ELSE Len(words))

\* words[i:i + chunk_size], i counted from 0
Slice(words, i) ==
  SubSeq(words, i + 1, IF i + chunk_size < Len(words) THEN i + chunk_size ELSE Len(words))

\* a slip: the chunks pass the length test of the other branches
RECURSIVE ChunksFromSubstantial(_, _)
ChunksFromSubstantial(words, i) ==
  IF i >= Len(words) THEN <<>>
  ELSE LET chunk == Join(Slice(words, i))
       IN  (IF IsSubstantial(Strip(chunk)) THEN << Strip(chunk) >> ELSE <<>>)
             \o ChunksFromSubstantial(words, i + chunk_size)

\* for i in range(0, len(words), chunk_size): keep the non-empty stripped chunk
RECURSIVE ChunksFrom(_, _)
ChunksFrom(words, i) ==
  IF i >= Len(words) THEN <<>>
  ELSE LET chunk == Join(Slice(words, i))
       IN  (IF Strip(chunk) # <<>> THEN << Strip(chunk) >> ELSE <<>>)
             \o ChunksFrom(words, i + chunk_size)

\* a slip: text.strip() == "" alone, which None does not pass
IsEmptyInputNoNone(t) == ~t.none /\ (t.str = <<>> \/ Strip(t.str) = <<>>)

\* a slip: not text alone
IsEmptyInputNoStrip(t) == t.none \/ t.str = <<>>

\* not text or text.strip() == ""
IsEmptyInput(t) == t.none \/ t.str = <<>> \/ Strip(t.str) = <<>>

\* a slip: the sentence split runs whatever the marker split kept
NeedsSentenceSplitAlways(cc) == TRUE

\* if not cleaned_clauses:
NeedsSentenceSplit(cc) == cc = <<>>

\* a slip: if text.strip(): without the test of cleaned_clauses
NeedsChunkingAlways(cc, s) == Strip(s) # <<>>

\* if not cleaned_clauses and text.strip():
NeedsChunking(cc, s) == cc = <<>> /\ Strip(s) # <<>>

(***************************************************************************)
(* The inputs.  A text is the concatenation of at most MaxParts pieces, or *)
(* of at most MaxItems numbered items, or one of four longer texts.        *)
(***************************************************************************)
MaxParts == 3

MaxItems == 3

MaxPages == 2
\* how many contract ids one session draws, and how long its chat history gets
MaxUploads == 3
MaxChats == 2

Letters == <<"a", "b", "c", "d", "e", "f", "g", "h", "i", "j", "k", "l", "m", "n", "o", "p">>

\* n characters without marker or punctuation: five-letter words of the letter c
Body(n, c) == [i \in 1..n |-> IF i % 6 = 0 THEN " " ELSE c]

\* n distinct two-letter words, single-spaced, without marker or punctuation
DistinctWords(n) ==
  Concat([k \in 1..n |->
            << Letters[((k - 1) \div Len(Letters)) + 1],
               Letters[((k - 1) % Len(Letters)) + 1] >>
              \o (IF k < n THEN <<" ">> ELSE <<>>)])

\* n words on lines of 20: 19 one-letter words and the label "7." that ends the
\* line, so that no stretch between two markers or two sentence ends is over
\* 50 characters
LabelledWords(n) ==
  Concat([k \in 1..n |->
            (IF k % 20 = 0 THEN <<"7", ".">>
             ELSE << Letters[((k - 1) % Len(Letters)) + 1] >>)
              \o (IF k = n THEN <<>> ELSE IF k % 20 = 0 THEN <<"\n">> ELSE <<" ">>)])

LabelledNames ==
  {"labelled99", "labelled100", "labelled101", "labelled200", "labelled201",
   "labelled250"}

LabelledCount(name) ==
  CASE name = "labelled99" -> 99
    [] name = "labelled100" -> 100
    [] name = "labelled101" -> 101
    [] name = "labelled200" -> 200
    [] name = "labelled201" -> 201
    [] name = "labelled250" -> 250

\* n words "ab." on lines of their own: no marker, no sentence over three characters
DottedWords(n) == Concat([k \in 1..n |-> <<"a", "b", ".", "\n">>])

ItemPieces == {"item50", "item51", "item52", "itemBuyer"}

\* The two items of the payment/delivery example.
PaymentBody ==
  <<"P","a","y","m","e","n","t"," ","s","h","a","l","l"," ","b","e"," ","m",
    "a","d","e"," ","w","i","t","h","i","n"," ","t","h","i","r","t","y"," ",
    "d","a","y","s"," ","o","f"," ","i","n","v","o","i","c","e"," ","r","e",
    "c","e","i","p","t"," ","b","y"," ","t","h","e"," ","b","u","y","e","r",
    ".">>

DeliveryBody ==
  <<"D","e","l","i","v","e","r","y"," ","s","h","a","l","l"," ","o","c","c",
    "u","r"," ","w","i","t","h","i","n"," ","t","w","o"," ","w","e","e","k",
    "s"," ","o","f"," ","p","a","y","m","e","n","t"," ","c","o","n","f","i",
    "r","m","a","t","i","o","n"," ","b","y"," ","s","e","l","l","e","r",
    ".">>

ExampleParts == <<"exPayment", "exDelivery">>

ItemNames == ItemPieces \cup {"exPayment", "exDelivery"}

MarkerPieces == {"num", "cap", "kwWC", "kwTI", "num51"}

SpacePieces == {"sp", "nl"}

Pieces == MarkerPieces \cup SpacePieces \cup {"dot", "word", "body50", "body51"}

\* The body of a numbered item, as it stands in the text.
ItemBody(name) ==
  CASE name = "item50" -> Body(MinClauseLen, "e")
    [] name = "exPayment" -> PaymentBody
    [] name = "exDelivery" -> DeliveryBody
    [] name = "item51" -> Body(MinClauseLen + 1, "b") \o <<".">>
    [] name = "item52" -> Body(MinClauseLen + 2, "c")
    [] name = "itemBuyer" ->
         Body(MinClauseLen + 1, "d") \o <<" ", "B", "u", "y", "e", "r", ".">>

ItemLabel(name) ==
  CASE name \in {"item51", "exPayment"} -> <<"1", ".", " ">>
    [] name \in {"item52", "exDelivery"} -> <<"2", ".", " ">>
    [] name = "item50" -> <<"3", ".", " ">>
    [] name = "itemBuyer" -> <<"1", "2", ".", "\t">>

\* The whitespace between an item's body and the next label.
ItemSep(name) == IF name = "exDelivery" THEN <<>> ELSE <<" ">>

PieceText(name) ==
  CASE name \in ItemNames -> ItemLabel(name) \o ItemBody(name) \o ItemSep(name)
    [] name = "num" -> <<"7", ".", " ">>
    [] name = "cap" -> <<"A", "r", "t", ".", " ">>
    [] name = "kwWC" -> WHEREAS \o <<" ">> \o IN_CONSIDERATION_OF
    [] name = "kwTI" -> THEREFORE \o <<"\n">> \o IN_WITNESS_WHEREOF
    [] name = "num51" -> [i \in 1..(MinClauseLen + 1) |-> "0"] \o <<".", " ">>
    [] name = "sp" -> <<" ">>
    [] name = "nl" -> <<"\n">>
    [] name = "dot" -> <<".", " ">>
    [] name = "word" -> <<"a", "b">>
    [] name = "body50" -> Body(MinClauseLen, "a")
    [] name = "body51" -> Body(MinClauseLen + 1, "a")
    [] name = "words250" -> DistinctWords(250)
    [] name = "dotted250" -> DottedWords(250)
    [] name \in LabelledNames -> LabelledWords(LabelledCount(name))
    [] name = "noContent" -> SentinelNoContent
    [] name = "empty" -> <<>>

LongParts ==
  {<<"words250">>, <<"sp", "words250", "nl">>, <<"dotted250">>, ExampleParts}
    \cup {<<name>> : name \in LabelledNames}
    \cup {<<"nl", "labelled201", "sp">>, <<"noContent">>}

PartsInputs ==
  UNION {[1..n -> Pieces] : n \in 0..MaxParts}
    \cup UNION {[1..n -> ItemPieces] : n \in 1..MaxItems}
    \cup LongParts

TextOf(ps) == Concat([i \in 1..Len(ps) |-> PieceText(ps[i])])

\* A file: its extension, whether the library can open it, and per page (or
\* paragraph) the text the library gives; a PDF page may give None or raise.
PageTexts == {"empty", "sp", "word", "body51"}

PageFaults == {"none", "raises"}

NoFile == [ext |-> "", valid |-> FALSE, pages |-> <<>>]

DocxFiles ==
  {[ext |-> e, valid |-> v, pages |-> ps] :
     e \in {".docx", ".DOCX"}, v \in BOOLEAN,
     ps \in UNION {[1..n -> PageTexts] : n \in 0..MaxPages}}

PdfFiles ==
  {[ext |-> ".pdf", valid |-> v, pages |-> ps] :
     v \in BOOLEAN,
     ps \in UNION {[1..n -> PageTexts \cup PageFaults] : n \in 0..MaxPages}}

OtherFiles ==
  {[ext |-> e, valid |-> TRUE, pages |-> <<"word">>] : e \in {".txt", ""}}

Files == DocxFiles \cup PdfFiles \cup OtherFiles

SplitInputs ==
  {[fn |-> "split", none |-> TRUE, parts |-> <<>>, file |-> NoFile]}
    \cup {[fn |-> "split", none |-> FALSE, parts |-> ps, file |-> NoFile] :
            ps \in PartsInputs}

FileInputs ==
  {[fn |-> "extract", none |-> FALSE, parts |-> <<>>, file |-> f] : f \in Files}

\* The messages the extractor returns in place of clauses; each stands here as
\* a text of one symbol, since no code looks inside it.
MsgNeedsPyPDF2 ==
  <<"PDF processing requires PyPDF2. Please install it with: pip install PyPDF2==3.0.1">>

MsgPdfError ==
  <<"Error reading PDF file: {str(e)}. Please ensure the file is a valid PDF.">>

MsgPdfNoText ==
  <<"No readable text found in the PDF. The PDF might be image-based or corrupted.">>

\* os.path.splitext(file_path)[1].lower()
FileExtension(f) ==
  CASE f.ext = ".DOCX" -> ".docx"
    [] OTHER -> f.ext

\* '\n'.join([paragraph.text for paragraph in doc.paragraphs])
DocxText(f) ==
  FlatMap(LAMBDA k : IF k = 1 THEN PieceText(f.pages[k])
                     ELSE <<"\n">> \o PieceText(f.pages[k]),
          1, Len(f.pages))

\* the page loop: text += page_text + "\n" for each page whose extract_text
\* neither raises nor gives None, "" or whitespace
PdfText(f) ==
  FlatMap(LAMBDA k : IF f.pages[k] \in PageFaults
                        \/ PieceText(f.pages[k]) = <<>>
                        \/ Strip(PieceText(f.pages[k])) = <<>>
                     THEN <<>>
                     ELSE PieceText(f.pages[k]) \o <<"\n">>,
          1, Len(f.pages))

(***************************************************************************)
(* State.                                                                  *)
(***************************************************************************)
VARIABLES
  PDF_SUPPORT,      \* whether  import PyPDF2  succeeded
  pc,               \* where the call stands
  input,            \* the call: [fn, none, parts, file]
  text,             \* split_into_clauses' argument
  clauses,          \* re.split's list
  cleaned_clauses,
  tier,             \* the branch that filled cleaned_clauses or returned
  result,           \* the returned list
  error,            \* the exception raised, "none" if none
  remembered,       \* an earlier call of split_into_clauses and what it returned
  backend_ok,       \* what initialize_backend returned (cached by st.cache_resource)
  contract_uploaded,  \* st.session_state.contract_uploaded
  contract_id,        \* st.session_state.contract_id
  contract_filename,  \* st.session_state.contract_filename
  chat_history,       \* st.session_state.chat_history
  uploaded_file,    \* the file the uploader widget holds
  rerun_requested,  \* the script run ended in st.rerun()
  clear_shown,      \* the last script run drew the Clear Contract button
  send_shown,       \* the last script run drew the Send button
  uuids,            \* how many ids uuid.uuid4() has given
  event,            \* what started the last script run
  upload_outcome    \* what upload_document did in the last script run

\* the Streamlit session
fields == <<contract_uploaded, contract_id, contract_filename, chat_history>>

sessionVars ==
  <<backend_ok, fields, uploaded_file, rerun_requested, clear_shown, send_shown,
    uuids, event, upload_outcome>>

\* what no step of the extractor or of split_into_clauses touches
otherVars == <<remembered, sessionVars>>

\* what no script run of the page touches
documentVars ==
  <<PDF_SUPPORT, pc, input, text, clauses, cleaned_clauses, tier, result, error,
    remembered>>

vars ==
  <<PDF_SUPPORT, pc, input, text, clauses, cleaned_clauses, tier, result, error,
    otherVars>>

\* no earlier call
NoCall == [set |-> FALSE, text |-> NoneVal, result |-> <<>>, between |-> FALSE]

None == "None"

NoneId == [none |-> TRUE, id |-> 0]

\* the uploader holds no file
NoUpload == [name |-> None, ext |-> ""]

\* The session as main() sets it up on the first script run.  With the backend
\* down main() returns before it, and no script run reads or writes the fields.
SessionStart ==
  /\ contract_uploaded = FALSE
  /\ contract_id = NoneId
  /\ contract_filename = None
  /\ chat_history = <<>>
  /\ uploaded_file = NoUpload
  /\ rerun_requested = FALSE
  /\ clear_shown = FALSE
  /\ send_shown = FALSE
  /\ uuids = 0
  /\ event = "load"
  /\ upload_outcome = "none"

\* The import's outcome matters to the extractor only: the runs without PyPDF2
\* are those of a file.
Init ==
  /\ PDF_SUPPORT \in BOOLEAN
  /\ input \in (IF PDF_SUPPORT THEN SplitInputs \cup FileInputs ELSE FileInputs)
  /\ pc = "idle"
  /\ text = NoneVal
  /\ clauses = <<>>
  /\ cleaned_clauses = <<>>
  /\ tier = "none"
  /\ result = <<>>
  /\ error = "none"
  /\ remembered = NoCall
  /\ backend_ok = TRUE
  /\ SessionStart

(***************************************************************************)
(* extract_clauses_from_file(file_path), one action per branch.            *)
(***************************************************************************)
\* .docx: extract_clauses_from_docx; Document(file_path) raises on a file it
\* cannot open
ExtractDocx ==
  /\ pc = "idle"
  /\ input.fn = "extract"
  /\ FileExtension(input.file) = ".docx"
  /\ IF input.file.valid
     THEN /\ text' = Str(DocxText(input.file))
          /\ pc' = "guard"
          /\ UNCHANGED <<result, tier, error>>
     ELSE /\ error' = "PackageNotFoundError"
          /\ pc' = "raised"
          /\ UNCHANGED <<text, result, tier>>
  /\ UNCHANGED <<PDF_SUPPORT, input, clauses, cleaned_clauses, otherVars>>

\* .pdf: extract_clauses_from_pdf, or the message when PyPDF2 is missing
ExtractPdf ==
  /\ pc = "idle"
  /\ input.fn = "extract"
  /\ FileExtension(input.file) = ".pdf"
  /\ IF ~PDF_SUPPORT
     THEN /\ result' = << MsgNeedsPyPDF2 >>
          /\ tier' = "extractor"
          /\ pc' = "done"
          /\ UNCHANGED text
     ELSE IF ~input.file.valid
     THEN /\ result' = << MsgPdfError >>
          /\ tier' = "extractor"
          /\ pc' = "done"
          /\ UNCHANGED text
     ELSE IF Strip(PdfText(input.file)) = <<>>
     THEN /\ result' = << MsgPdfNoText >>
          /\ tier' = "extractor"
          /\ pc' = "done"
          /\ UNCHANGED text
     ELSE /\ text' = Str(PdfText(input.file))
          /\ pc' = "guard"
          /\ UNCHANGED <<result, tier>>
  /\ UNCHANGED <<PDF_SUPPORT, input, clauses, cleaned_clauses, error, otherVars>>

\* any other extension: raise ValueError
ExtractUnsupported ==
  /\ pc = "idle"
  /\ input.fn = "extract"
  /\ FileExtension(input.file) \notin {".docx", ".pdf"}
  /\ error' = "ValueError"
  /\ pc' = "raised"
  /\ UNCHANGED <<PDF_SUPPORT, input, text, clauses, cleaned_clauses, tier, result, otherVars>>

(***************************************************************************)
(* split_into_clauses(text), one action per block of the function.         *)
(***************************************************************************)
\* a direct call
CallSplit ==
  /\ pc = "idle"
  /\ input.fn = "split"
  /\ text' = IF input.none THEN NoneVal ELSE Str(TextOf(input.parts))
  /\ pc' = "guard"
  /\ UNCHANGED <<PDF_SUPPORT, input, clauses, cleaned_clauses, tier, result, error, otherVars>>

\* if not text or text.strip() == "": return [...]
EmptyGuard ==
  /\ pc = "guard"
  /\ IF IsEmptyInput(text)
     THEN /\ result' = << SentinelNoText >>
          /\ tier' = "guard"
          /\ pc' = "done"
     ELSE /\ pc' = "marker"
          /\ UNCHANGED <<result, tier>>
  /\ UNCHANGED <<PDF_SUPPORT, input, text, clauses, cleaned_clauses, error, otherVars>>

\* a slip: cleaned_clauses is not made anew by the call (a list kept at module
\* level, or a mutable default), so the loop appends to what the last call left
MarkerSplitAccumulating ==
  /\ pc = "marker"
  /\ IF text.none
     THEN /\ error' = "TypeError"
          /\ pc' = "raised"
          /\ UNCHANGED <<clauses, cleaned_clauses, tier>>
     ELSE /\ clauses' = ReSplitMarkers(text.str)
          /\ cleaned_clauses' = cleaned_clauses \o CleanClauses(clauses')
          /\ tier' = IF cleaned_clauses' # <<>> THEN "marker" ELSE tier
          /\ pc' = IF NeedsSentenceSplit(cleaned_clauses') THEN "sentence"
                   ELSE IF NeedsChunking(cleaned_clauses', text.str) THEN "chunk"
                   ELSE "return"
          /\ UNCHANGED error
  /\ UNCHANGED <<PDF_SUPPORT, input, text, result, otherVars>>

\* clauses = re.split(pattern, text) and the clean-up loop; re.split raises
\* TypeError on None
MarkerSplit ==
  /\ pc = "marker"
  /\ IF text.none
     THEN /\ error' = "TypeError"
          /\ pc' = "raised"
          /\ UNCHANGED <<clauses, cleaned_clauses, tier>>
     ELSE /\ clauses' = ReSplitMarkers(text.str)
          /\ cleaned_clauses' = CleanClauses(clauses')
          /\ tier' = IF cleaned_clauses' # <<>> THEN "marker" ELSE tier
          /\ pc' = IF NeedsSentenceSplit(cleaned_clauses') THEN "sentence"
                   ELSE IF NeedsChunking(cleaned_clauses', text.str) THEN "chunk"
                   ELSE "return"
          /\ UNCHANGED error
  /\ UNCHANGED <<PDF_SUPPORT, input, text, result, otherVars>>

\* if not cleaned_clauses: the sentence split
SentenceSplit ==
  /\ pc = "sentence"
  /\ \E sentences \in {ReSplitSentences(text.str)} :
       cleaned_clauses' = cleaned_clauses \o CleanSentences(sentences)
  /\ tier' = IF cleaned_clauses' # cleaned_clauses THEN "sentence" ELSE tier
  /\ pc' = IF NeedsChunking(cleaned_clauses', text.str) THEN "chunk" ELSE "return"
  /\ UNCHANGED <<PDF_SUPPORT, input, text, clauses, result, error, otherVars>>

\* if not cleaned_clauses and text.strip(): chunks of chunk_size words
WordChunking ==
  /\ pc = "chunk"
  /\ \E words \in {SplitWords(text.str)} :
       cleaned_clauses' = cleaned_clauses \o ChunksFrom(words, 0)
  /\ tier' = IF cleaned_clauses' # cleaned_clauses THEN "chunk" ELSE tier
  /\ pc' = "return"
  /\ UNCHANGED <<PDF_SUPPORT, input, text, clauses, result, error, otherVars>>

\* return cleaned_clauses if cleaned_clauses else [...]
Return ==
  /\ pc = "return"
  /\ result' = IF cleaned_clauses # <<>> THEN cleaned_clauses
               ELSE << SentinelNoContent >>
  /\ tier' = IF cleaned_clauses # <<>> THEN tier ELSE "fallback"
  /\ pc' = "done"
  /\ UNCHANGED <<PDF_SUPPORT, input, text, clauses, cleaned_clauses, error, otherVars>>

Next ==
  \/ ExtractDocx
  \/ ExtractPdf
  \/ ExtractUnsupported
  \/ CallSplit
  \/ EmptyGuard
  \/ MarkerSplit
  \/ SentenceSplit
  \/ WordChunking
  \/ Return

Spec == Init /\ [][Next]_vars

(***************************************************************************)
(* Calls of split_into_clauses one after another, in one process.          *)
(***************************************************************************)
\* The arguments of the calls: None, the empty text, whitespace, and texts
\* that end in each branch of the function.
CallParts ==
  { <<>>, <<"sp">>, <<"word">>, <<"word", "nl", "word">>, <<"body51">>,
    <<"kwWC", "kwTI">>, <<"item51", "item52">> }

CallInputs ==
  {[fn |-> "split", none |-> TRUE, parts |-> <<>>, file |-> NoFile]}
    \cup {[fn |-> "split", none |-> FALSE, parts |-> ps, file |-> NoFile] :
            ps \in CallParts}

CallsInit ==
  /\ PDF_SUPPORT = TRUE
  /\ input \in CallInputs
  /\ pc = "idle"
  /\ text = NoneVal
  /\ clauses = <<>>
  /\ cleaned_clauses = <<>>
  /\ tier = "none"
  /\ result = <<>>
  /\ error = "none"
  /\ remembered = NoCall
  /\ backend_ok = TRUE
  /\ SessionStart

\* The call has returned and the next one is made.  The function has no
\* global, no attribute and no default argument, so nothing is handed over:
\* the names text, clauses and cleaned_clauses of the finished call are left
\* as they are here, and the next call binds each anew before it reads it.
\* The finished call is remembered, or the one remembered before is kept.
NextCall ==
  /\ pc = "done"
  /\ input' \in CallInputs
  /\ pc' = "idle"
  /\ tier' = "none"
  /\ result' = <<>>
  /\ \/ remembered' = [set |-> TRUE, text |-> text, result |-> result,
                       between |-> FALSE]
     \/ /\ remembered.set
        /\ remembered' =
             [remembered EXCEPT !.between = @ \/ text # remembered.text]
  /\ UNCHANGED <<PDF_SUPPORT, text, clauses, cleaned_clauses, error, sessionVars>>

CallsNext ==
  \/ CallSplit
  \/ EmptyGuard
  \/ MarkerSplit
  \/ SentenceSplit
  \/ WordChunking
  \/ Return
  \/ NextCall

CallsSpec == CallsInit /\ [][CallsNext]_vars

(***************************************************************************)
(* The page: main() of streamlit_app.py, run from top to bottom on every   *)
(* interaction.  One action is one script run.                             *)
(***************************************************************************)
\* the files a user gives the uploader (type=["pdf", "txt", "docx"])
UploadFiles ==
  { [name |-> "contract.pdf", ext |-> ".pdf"],
    [name |-> "notes.txt", ext |-> ".txt"] }

sample_questions ==
  << "What are the payment terms?",
     "What is the contract duration?",
     "Are there any termination clauses?",
     "What are the key obligations?",
     "Are there any penalties mentioned?" >>

\* what the text input holds when Send is clicked
Queries == {"", "Who are the parties?"}

\* response_data["response"]: the model's answer, or the apology of the
\* except branch; chat_with_contract returns a dict on both ways
Responses == {"answer", "apology"}

\* upload_document(file): the result or None.  extract_clauses_from_file
\* raises ValueError on an extension other than .docx and .pdf, and writing
\* the file, reading it or storing the clauses may fail on any file; every
\* exception is caught and None returned.
UploadResults(f) ==
  IF FileExtension(f) \in {".docx", ".pdf"} THEN BOOLEAN ELSE {FALSE}

\* a slip: if uploaded_file is not None:
ShouldProcessUploadAlways(f, uploaded) == f # NoUpload

\* if uploaded_file is not None and not st.session_state.contract_uploaded:
ShouldProcessUpload(f, uploaded) == f # NoUpload /\ ~uploaded

\* st.session_state.chat_history.append({"query": ..., "response": ...})
Appended(q, r) == chat_history \o << [query |-> q, response |-> r] >>

SessionInit ==
  /\ PDF_SUPPORT = TRUE
  /\ input = [fn |-> "split", none |-> TRUE, parts |-> <<>>, file |-> NoFile]
  /\ pc = "idle"
  /\ text = NoneVal
  /\ clauses = <<>>
  /\ cleaned_clauses = <<>>
  /\ tier = "none"
  /\ result = <<>>
  /\ error = "none"
  /\ remembered = NoCall
  /\ backend_ok \in BOOLEAN
  /\ SessionStart

\* One script run of main(): started by ev, with q in the text input, r the
\* response a chat would get and f the file in the uploader.
ScriptRun(ev, q, r, f) ==
  /\ uploaded_file' = f
  /\ event' = ev
  /\ IF ~backend_ok
     THEN \* if not initialize_backend(): return
          /\ upload_outcome' = "none"
          /\ rerun_requested' = FALSE
          /\ clear_shown' = FALSE
          /\ send_shown' = FALSE
          /\ UNCHANGED <<fields, uuids>>
     ELSE IF contract_uploaded /\ ev = "clear"
     THEN \* the sidebar: Clear Contract, st.rerun()
          /\ contract_uploaded' = FALSE
          /\ contract_id' = NoneId
          /\ contract_filename' = None
          /\ chat_history' = <<>>
          /\ rerun_requested' = TRUE
          /\ upload_outcome' = "none"
          /\ clear_shown' = TRUE
          /\ send_shown' = FALSE
          /\ UNCHANGED uuids
     ELSE IF contract_uploaded /\ ev = "sample"
     THEN \* the sidebar: a sample question, st.rerun()
          /\ chat_history' = Appended(q, r)
          /\ rerun_requested' = TRUE
          /\ upload_outcome' = "none"
          /\ clear_shown' = TRUE
          /\ send_shown' = FALSE
          /\ UNCHANGED <<contract_uploaded, contract_id, contract_filename, uuids>>
     ELSE \* the upload section, then the chat section
          /\ IF ShouldProcessUpload(f, contract_uploaded)
             THEN /\ uuids' = uuids + 1
                  /\ \E ok \in UploadResults(f) :
                       IF ok
                       THEN /\ upload_outcome' = "ok"
                            /\ contract_uploaded' = TRUE
                            /\ contract_id' = [none |-> FALSE, id |-> uuids']
                            /\ contract_filename' = f.name
                       ELSE /\ upload_outcome' = "failed"
                            /\ UNCHANGED <<contract_uploaded, contract_id,
                                           contract_filename>>
             ELSE /\ upload_outcome' = "none"
                  /\ UNCHANGED <<uuids, contract_uploaded, contract_id,
                                 contract_filename>>
          /\ clear_shown' = contract_uploaded
          /\ send_shown' = contract_uploaded'
          /\ IF contract_uploaded' /\ ev = "send" /\ q # ""
             THEN /\ chat_history' = Appended(q, r)
                  /\ rerun_requested' = TRUE
             ELSE /\ rerun_requested' = FALSE
                  /\ UNCHANGED chat_history
  /\ UNCHANGED <<documentVars, backend_ok>>

\* uuid.uuid4() is called at most MaxUploads times
IdsLeft(f) == ShouldProcessUpload(f, contract_uploaded) => uuids < MaxUploads

\* the user puts a file into the uploader, or takes it out
ChangeUpload ==
  /\ ~rerun_requested
  /\ \E f \in UploadFiles \cup {NoUpload} :
       /\ f # uploaded_file
       /\ IdsLeft(f)
       /\ ScriptRun("uploader", "", "answer", f)

\* a click on Clear Contract
ClickClear ==
  /\ ~rerun_requested
  /\ clear_shown
  /\ IdsLeft(uploaded_file)
  /\ ScriptRun("clear", "", "answer", uploaded_file)

\* a click on one of the sample questions
ClickSample ==
  /\ ~rerun_requested
  /\ backend_ok
  /\ Len(chat_history) < MaxChats
  /\ IdsLeft(uploaded_file)
  /\ \E i \in 1..Len(sample_questions), r \in Responses :
       ScriptRun("sample", sample_questions[i], r, uploaded_file)

\* a click on Send
ClickSend ==
  /\ ~rerun_requested
  /\ send_shown
  /\ Len(chat_history) < MaxChats
  /\ IdsLeft(uploaded_file)
  /\ \E q \in Queries, r \in Responses : ScriptRun("send", q, r, uploaded_file)

\* the script run that st.rerun() starts
Rerun ==
  /\ rerun_requested
  /\ IdsLeft(uploaded_file)
  /\ ScriptRun("rerun", "", "answer", uploaded_file)

SessionNext ==
  \/ ChangeUpload
  \/ ClickClear
  \/ ClickSample
  \/ ClickSend
  \/ Rerun

SessionSpec == SessionInit /\ [][SessionNext]_vars

(***************************************************************************)
(* Properties.                                                             *)
(***************************************************************************)
\* split_into_clauses is running
InSplit == pc \in {"guard", "marker", "sentence", "chunk", "return"}

\* split_into_clauses has returned
Returned == pc = "done" /\ tier # "extractor"

\* None, "" or whitespace only
AllWhitespace(t) == t.none \/ \A i \in 1..Len(t.str) : t.str[i] \in Whitespace

\* no leading and no trailing whitespace
Trimmed(c) == c = <<>> \/ (c[1] \notin Whitespace /\ c[Len(c)] \notin Whitespace)

LongerThan50(c) == Len(c) > MinClauseLen

\* re.split's fragments, each trimmed (None: the empty text)
TrimmedFragments ==
  [k \in 1..Len(clauses) |->
     IF clauses[k].none THEN <<>> ELSE Strip(clauses[k].str)]

\* C1: split_into_clauses is total: on every input (None, "", whitespace only,
\* any other text) it raises nothing (the only exceptions are the extractor's,
\* raised before it is called), and the list it returns has at least one
\* element.
C1_Total ==
  /\ error # "TypeError"
  /\ (pc = "raised" => input.fn = "extract" /\ text = NoneVal)
  /\ (Returned => Len(result) >= 1)

C1_Witness ==
  /\ Returned
  /\ input.fn = "split"
  /\ input.none
  /\ Len(result) = 1

\* C4: on None, "" or whitespace-only text split_into_clauses returns exactly
\* ["No readable text found in the document."], from the guard: re.split never
\* runs, no tier adds a clause.
C4_EmptyInputSentinel ==
  (InSplit \/ Returned) /\ AllWhitespace(text) =>
    /\ pc \in {"guard", "done"}
    /\ clauses = <<>>
    /\ cleaned_clauses = <<>>
    /\ (pc = "done" => result = << SentinelNoText >> /\ tier = "guard")

C4_Witness ==
  /\ Returned
  /\ ~text.none
  /\ Len(text.str) >= 2
  /\ AllWhitespace(text)
  /\ result = << SentinelNoText >>

\* C5: a list returned from the marker split or from the sentence split holds
\* only clauses without leading or trailing whitespace and longer than 50
\* characters; of the three tiers only word chunking returns a clause of 50
\* characters or fewer.
C5_SubstantialClauses ==
  Returned =>
    /\ (tier \in {"marker", "sentence"} =>
          \A k \in 1..Len(result) :
            /\ result[k] # <<>>
            /\ Trimmed(result[k])
            /\ Len(result[k]) > MinClauseLen)
    /\ (/\ tier \in {"marker", "sentence", "chunk"}
        /\ \E k \in 1..Len(result) : Len(result[k]) <= MinClauseLen
        => tier = "chunk")

C5_Witness ==
  /\ Returned
  /\ tier = "sentence"
  /\ Len(result) >= 1
  /\ ~Trimmed(text.str)

\* C7: when some trimmed fragment of re.split is longer than 50 characters, the
\* returned list is the trimmed fragments longer than 50, in the order of the
\* split: a fragment of exactly 50 is dropped, every longer one is kept.
C7_KeptFragments ==
  Returned /\ (\E k \in 1..Len(clauses) : LongerThan50(TrimmedFragments[k])) =>
    /\ tier = "marker"
    /\ result = SelectSeq(TrimmedFragments, LongerThan50)

C7_Witness ==
  /\ Returned
  /\ tier = "marker"
  /\ Len(result) >= 2
  /\ result[1] # result[2]
  /\ \E k \in 1..Len(clauses) : Len(TrimmedFragments[k]) = MinClauseLen

\* no marker anywhere in s
NoMarker(s) == \A i \in 1..Len(s) : MatchAt(s, i).group = 0

\* The sentences of s: the non-blank stretches between the ends [.!?]\s+.
Sentences(s) == SelectSeq(ReSplitSentences(s), LAMBDA f : Strip(f) # <<>>)

\* s has no marker, and each of its sentences exceeds 50 characters
LongSentencesNoMarker(s) ==
  /\ NoMarker(s)
  /\ \A ss \in {Sentences(s)} :
       /\ Len(ss) >= 1
       /\ \A k \in 1..Len(ss) : LongerThan50(Strip(ss[k]))

\* C2 as stated: a text without marker whose sentences each exceed 50
\* characters is returned by the sentence split, one clause per sentence.
C2_SentenceTier ==
  Returned /\ ~text.none /\ LongSentencesNoMarker(text.str) =>
    /\ tier = "sentence"
    /\ \A ss \in {Sentences(text.str)} :
         result = [k \in 1..Len(ss) |-> Strip(ss[k])]

\* C2, amended: such a text is returned whole, as the one fragment the marker
\* split keeps (re.split finds no marker, and the text exceeds 50 characters);
\* neither the sentence split nor word chunking runs.
C2_WholeTextKept ==
  (InSplit \/ Returned) /\ ~text.none /\ LongSentencesNoMarker(text.str) =>
    /\ pc \notin {"sentence", "chunk"}
    /\ (Returned => tier = "marker" /\ result = << Strip(text.str) >>)

C2_Witness ==
  /\ Returned
  /\ ~text.none
  /\ LongSentencesNoMarker(text.str)
  /\ Len(Sentences(text.str)) >= 2
  /\ Len(result) = 1

\* s has neither punctuation nor marker and is 250 distinct words
DistinctWordsNoMarker(s) ==
  /\ Len(s) >= 2 * 250 - 1
  /\ \A i \in 1..Len(s) : s[i] \in Lower \cup Upper \cup Digits \cup Whitespace
  /\ NoMarker(s)
  /\ \A ws \in {SplitWords(s)} :
       /\ Len(ws) = 250
       /\ Cardinality({ws[k] : k \in 1..Len(ws)}) = 250

\* C3 as stated: such a text is returned as 3 clauses of 100, 100 and 50 words
\* joined by single spaces.
C3_ThreeChunks ==
  Returned /\ ~text.none /\ DistinctWordsNoMarker(text.str) =>
    \A ws \in {SplitWords(text.str)} :
      \A c1 \in {SubSeq(ws, 1, chunk_size)},
         c2 \in {SubSeq(ws, chunk_size + 1, 2 * chunk_size)},
         c3 \in {SubSeq(ws, 2 * chunk_size + 1, 250)} :
        result = << Join(c1), Join(c2), Join(c3) >>

\* C3, amended: such a text is returned as exactly 1 clause, the whole trimmed
\* text, kept by the marker split; word chunking is not reached.
C3_OneClause ==
  (InSplit \/ Returned) /\ ~text.none /\ DistinctWordsNoMarker(text.str) =>
    /\ pc \notin {"sentence", "chunk"}
    /\ (Returned =>
          /\ tier = "marker"
          /\ Len(result) = 1
          /\ result[1] = Strip(text.str))

C3_Witness ==
  /\ Returned
  /\ ~text.none
  /\ DistinctWordsNoMarker(text.str)
  /\ ~Trimmed(text.str)
  /\ Len(result) = 1

\* No marker match begins inside the body of item i as it stands in the text
\* of the items ps (a body that ends in a number or a capitalized word and a
\* period makes a marker with the whitespace after it).
BodyFree(ps, i) ==
  \A b \in {ItemBody(ps[i]) \o ItemSep(ps[i]) \o TextOf(SubSeq(ps, i + 1, Len(ps)))} :
    \A j \in 1..Len(ItemBody(ps[i])) : MatchAt(b, j).group = 0

\* The text is k >= 1 numbered items  n. body , each body over 50 characters
\* after trimming and without marker match.
NumberedItems ==
  /\ input.fn = "split"
  /\ ~input.none
  /\ Len(input.parts) >= 1
  /\ \A i \in 1..Len(input.parts) :
       /\ input.parts[i] \in ItemNames
       /\ LongerThan50(Strip(ItemBody(input.parts[i])))
       /\ BodyFree(input.parts, i)

OnlyMarkers ==
  /\ input.fn = "split"
  /\ ~input.none
  /\ \A i \in 1..Len(input.parts) : input.parts[i] \in MarkerPieces \cup SpacePieces
  /\ \E i \in 1..Len(input.parts) : input.parts[i] \in MarkerPieces

\* some stretch between two sentence ends of s exceeds 50 characters
HasLongSentence(s) ==
  \E ss \in {ReSplitSentences(s)} : \E k \in 1..Len(ss) : LongerThan50(Strip(ss[k]))

\* C8 as stated: for a text of markers only the marker split keeps nothing, the
\* sentence split keeps nothing, and word chunking gives the result.
C8_MarkersOnlyChunked ==
  Returned /\ OnlyMarkers =>
    /\ \A k \in 1..Len(clauses) : ~LongerThan50(TrimmedFragments[k])
    /\ tier = "chunk"

\* C8, amended: for a text of markers only, each marker of at most 50
\* characters, the marker split keeps nothing; the sentence split gives the
\* result when a stretch between two sentence ends exceeds 50 characters
\* (keywords in a row), and word chunking gives it otherwise.
C8_MarkersOnlyFallThrough ==
  /\ Returned
  /\ OnlyMarkers
  /\ \A i \in 1..Len(input.parts) : ~LongerThan50(Strip(PieceText(input.parts[i])))
  => /\ \A k \in 1..Len(clauses) : ~LongerThan50(TrimmedFragments[k])
     /\ tier = (IF HasLongSentence(text.str) THEN "sentence" ELSE "chunk")

C8_Witness ==
  /\ Returned
  /\ OnlyMarkers
  /\ \A i \in 1..Len(input.parts) : ~LongerThan50(Strip(PieceText(input.parts[i])))
  /\ tier = "sentence"

\* The trimmed text is not empty and at most 50 characters long.
ShortText ==
  /\ ~text.none
  /\ \A t \in {Strip(text.str)} : t # <<>> /\ Len(t) <= MinClauseLen

\* the characters of s that are not whitespace
NonSpace(s) == SelectSeq(s, LAMBDA c : c \notin Whitespace)

\* where the words of s begin, counted in characters that are not whitespace
WordBreaks(s) ==
  {Len(NonSpace(SubSeq(s, 1, i - 1))) :
     i \in {j \in 1..Len(s) : s[j] \notin Whitespace
                               /\ (j = 1 \/ s[j - 1] \in Whitespace)}}

\* c is words separated by one space each
SingleSpaced(c) ==
  /\ Trimmed(c)
  /\ \A i \in 1..Len(c) :
       c[i] \in Whitespace => c[i] = " " /\ c[i + 1] \notin Whitespace

\* C9 as stated: a short text is returned as one clause equal to the trimmed
\* text, no character changed.
C9_ShortTextUnchanged ==
  Returned /\ ShortText => result = << Strip(text.str) >>

\* C9, amended: a short text is returned by word chunking as one clause, its
\* words joined by one space each; the clause equals the trimmed text exactly
\* when the text's words are separated by one space each.
C9_ShortTextSingleSpaced ==
  Returned /\ ShortText =>
    /\ tier = "chunk"
    /\ Len(result) = 1
    /\ SingleSpaced(result[1])
    /\ NonSpace(result[1]) = NonSpace(text.str)
    /\ WordBreaks(result[1]) = WordBreaks(text.str)
    /\ (result[1] = Strip(text.str) <=> SingleSpaced(Strip(text.str)))

C9_Witness ==
  /\ Returned
  /\ ShortText
  /\ Len(result) = 1
  /\ result[1] # Strip(text.str)

\* C10: extract_clauses_from_file never raises; whatever the file, it returns a
\* list.
C10_ExtractorNeverRaises ==
  input.fn = "extract" => error = "none" /\ pc # "raised"

\* C11: a call of split_into_clauses returns what an earlier call with the same
\* argument returned, whatever calls were made between the two: the result is
\* a function of the argument, and nothing a call leaves behind is read by a
\* later one.
C11_SameInputSameResult ==
  Returned /\ remembered.set /\ text = remembered.text =>
    result = remembered.result

C11_Witness ==
  /\ Returned
  /\ remembered.set
  /\ remembered.between
  /\ text = remembered.text
  /\ tier = "chunk"
  /\ result = remembered.result

\* a step of the sentence split or of word chunking that adds clauses
Contributes == pc \in {"sentence", "chunk"} /\ cleaned_clauses' # cleaned_clauses

\* C12: the sentence split adds clauses only to an empty list (the marker
\* split kept nothing), word chunking adds clauses only to an empty list
\* (marker split and sentence split kept nothing), and what is returned is the
\* list as the one contributing branch left it, or the sentinel when no
\* branch contributed: never clauses of two branches.
C12_OneTier ==
  [][ /\ (Contributes => cleaned_clauses = <<>> /\ tier = "none")
      /\ (pc \in {"sentence", "chunk"} /\ ~Contributes => tier' = tier)
      /\ (pc = "marker" /\ pc' # "raised" =>
            tier' = (IF cleaned_clauses' = <<>> THEN "none" ELSE "marker"))
      /\ (pc = "return" =>
            /\ pc' = "done"
            /\ result' = (IF tier = "none" THEN << SentinelNoContent >>
                          ELSE cleaned_clauses)
            /\ cleaned_clauses' = cleaned_clauses) ]_vars

C12_Witness ==
  /\ Returned
  /\ tier = "sentence"
  /\ Len(clauses) > 1
  /\ result = cleaned_clauses
  /\ \A k \in 1..Len(clauses) : ~LongerThan50(TrimmedFragments[k])

\* C13: when word chunking gives the result for a text of n words, there are
\* ceil(n / 100) clauses; each clause is words joined by one space, 100 of
\* them in every clause but the last and 1 to 100 in the last; and the words of
\* the clauses, in order, are the words of the text.
C13_ChunkArithmetic ==
  Returned /\ tier = "chunk" =>
    \A words \in {SplitWords(text.str)} :
      /\ Len(result) = (Len(words) + chunk_size - 1) \div chunk_size
      /\ \A k \in 1..Len(result) :
           \A ws \in {SplitWords(result[k])} :
             /\ SingleSpaced(result[k])
             /\ Len(ws) >= 1
             /\ Len(ws) <= chunk_size
             /\ k < Len(result) => Len(ws) = chunk_size
             /\ k = Len(result) => Len(ws) = Len(words) - chunk_size * (k - 1)
             /\ \A j \in 1..Len(ws) : ws[j] = words[chunk_size * (k - 1) + j]

C13_Witness ==
  /\ Returned
  /\ tier = "chunk"
  /\ Len(result) = 3
  /\ Len(SplitWords(result[3])) = 1
  /\ ~SingleSpaced(Strip(text.str))

\* C14: the return of the sentinel "No readable content found in the
\* document." is never taken.  A text that passes the guard has a word, so
\* word chunking, whenever it runs, keeps a chunk, and the list is not empty at
\* the return; the one sentinel the function makes is that of the guard.  (A
\* text that reads as the sentinel is returned as a chunk like any short text.)
C14_FallbackUnreachable ==
  /\ tier # "fallback"
  /\ (pc = "return" => cleaned_clauses # <<>> /\ tier # "none")
  /\ (pc \in {"marker", "sentence", "chunk", "return"} /\ error = "none" =>
        ~AllWhitespace(text))
  /\ (Returned /\ tier \notin {"marker", "sentence", "chunk"} =>
        tier = "guard" /\ result = << SentinelNoText >>)

C14_Witness ==
  /\ Returned
  /\ tier = "chunk"
  /\ Len(clauses) = 1
  /\ Len(result) = 1
  /\ result[1] = SentinelNoContent

\* the literal lit stands somewhere in c
Occurs(lit, c) ==
  \E i \in 1..(Len(c) - Len(lit) + 1) : SubSeq(c, i, i + Len(lit) - 1) = lit

Keywords == {WHEREAS, THEREFORE, IN_WITNESS_WHEREOF, IN_CONSIDERATION_OF}

\* C15: when the marker split gives the result, no clause holds a match of one
\* of the six patterns, no clause holds one of the four keywords, and, the
\* text having a marker, the clauses together are shorter than the text: the
\* markers are gone from the output.
C15_MarkersRemoved ==
  Returned /\ tier = "marker" =>
    /\ \A k \in 1..Len(result) :
         /\ NoMarker(result[k])
         /\ \A lit \in Keywords : ~Occurs(lit, result[k])
    /\ (~NoMarker(text.str) => Len(Concat(result)) < Len(text.str))

C15_Witness ==
  /\ Returned
  /\ tier = "marker"
  /\ Len(result) = 2
  /\ Occurs(IN_CONSIDERATION_OF, text.str)
  /\ \E i \in 1..Len(text.str) : MatchAt(text.str, i).group = 1

\* C16: on every script run of the page, at its end: contract_uploaded is
\* true exactly when contract_id and contract_filename are both set; the chat
\* history grows only with a contract uploaded; a failed upload leaves the four
\* fields as they were; with a contract uploaded no file is processed; and
\* Clear Contract leaves the four fields at False, None, None and [].
C16_SessionFields ==
  [][ /\ contract_uploaded' = (contract_id' # NoneId /\ contract_filename' # None)
      /\ (contract_id' # NoneId <=> contract_filename' # None)
      /\ (chat_history' # chat_history /\ chat_history' # <<>> =>
            /\ contract_uploaded
            /\ contract_uploaded'
            /\ Len(chat_history') = Len(chat_history) + 1
            /\ SubSeq(chat_history', 1, Len(chat_history)) = chat_history)
      /\ (upload_outcome' = "failed" => fields' = fields)
      /\ (contract_uploaded =>
            /\ upload_outcome' = "none"
            /\ uuids' = uuids
            /\ (event' # "clear" =>
                  UNCHANGED <<contract_uploaded, contract_id, contract_filename>>))
      /\ (event' = "clear" => fields' = <<FALSE, NoneId, None, <<>> >>) ]_vars

\* Clear Contract was clicked after a failed and a successful upload and a
\* chat, with the file still in the uploader
C16_Witness ==
  /\ event = "clear"
  /\ rerun_requested
  /\ uploaded_file # NoUpload
  /\ uuids >= 2
  /\ fields = <<FALSE, NoneId, None, <<>> >>

====
